---- MODULE Spec2Model ----
(***************************************************************************)
(* RAG ingestion and retrieval engine of the AI Agent Hub worker.          *)
(*                                                                         *)
(*   queueHandler                       src/worker/index.ts                *)
(*   processKnowledgeSourcePineconeWithRetry, processKnowledgeSourcePinecone*)
(*   PineconeRAGProcessor.processKnowledgeSource / findRelevantChunks      *)
(*   PineconeVectorStore.addDocument / searchSimilar / hybridSearch /      *)
(*   contextualSearch / deleteDocuments                                    *)
(*                                                                         *)
(* Spec          the ingestion life cycle of knowledge sources: submit,    *)
(*               queue delivery, whole-attempt retries, per-chunk stores,  *)
(*               deletion, and a chat turn reading the index meanwhile.    *)
(* SpecRetrieve  findRelevantChunks applied to an index response drawn     *)
(*               from bounded sets.                                        *)
(***************************************************************************)
EXTENDS Integers, Sequences, FiniteSets, TLC

(***************************************************************************)
(* Bounds of the model                                                     *)
(***************************************************************************)
NumSources == 1        \* knowledge sources that can be submitted
NumAgents == 2         \* agents owning sources
MaxChunks == 2         \* chunks segmentation produces for one source
MaxCopies == 2         \* vectors the index holds for one (source, position)
MaxDeliveries == 5     \* deliveries of one job the queue performs
MaxMatches == 3        \* vectors in the index when a query is answered
MaxLimit == 2          \* max_chunks_per_query handed to a retrieval
MaxPosition == 2       \* highest chunk position in a queried index
MaxWindow == 2         \* context_window an agent configures (1..5 in code)
MaxSentences == 3      \* sentences of a text given to the chunker
MaxParts == 5          \* parts simpleCharacterSplit collects before a cut

(***************************************************************************)
(* Program constants                                                       *)
(***************************************************************************)
maxRetries == 3            \* whole-attempt retries, index.ts:1296
jobRetryCap == 3           \* job-level cap, index.ts:1614
addDocumentMaxRetries == 3 \* per-chunk tries, pinecone-store.ts:60
batchSize == 5             \* chunks stored concurrently, rag-processor:213
retryBaseDelay == 1000     \* ms, first wait between attempts, index.ts:1313
retryMaxDelay == 30000     \* ms, cap of that wait, index.ts:1313
addDocumentBaseDelay == 1000  \* ms, first wait between tries, pinecone-store:128
addDocumentMaxDelay == 5000   \* ms, cap of that wait, pinecone-store:128

Min(a, b) == IF a <= b THEN a ELSE b

SourceIds == 1..NumSources
AgentIds == 1..NumAgents
ChunkIdx == 0..(MaxChunks - 1)

VARIABLES
  sources,      \* knowledge_sources table: id -> row
  queue,        \* RAG_QUEUE: messages waiting for delivery
  cur,          \* message.body of the message queueHandler is processing
  pc,           \* position of queueHandler inside the current message
  attempt,      \* loop variable of processKnowledgeSourcePineconeWithRetry
  lastError,    \* error of the last failed attempt
  chunks,       \* per chunk of the running attempt: state of its store
  result,       \* value returned by processKnowledgeSource
  index,        \* Pinecone index: vectors per (agent, source, position)
  envOK,        \* OPENAI/PINECONE secrets are configured
  deliveries,   \* deliveries per source so far
  signal,       \* ack/retry signalled for the last handled message
  waited,       \* ms the retry loop has waited in the current delivery
  ranked,       \* SpecRetrieve: index content ranked for the query
  call,         \* SpecRetrieve: arguments of findRelevantChunks
  results,      \* SpecRetrieve: value returned by findRelevantChunks
  chat,         \* SpecRetrieve: the chat turn handled, and its outcome
  awaiting,     \* SpecQuery: the service call a retrieval waits for
  segment,      \* SpecSegment: arguments of chunkTextSemantically
  segpc,        \* SpecSegment: position inside chunkTextSemantically
  stack,        \* SpecSegment: pending calls of recursiveChunk, next first
  semantic,     \* SpecSegment: loop state of chunkBySemantic
  segmented     \* SpecSegment: chunks pushed so far; the value returned

vars == <<sources, queue, cur, pc, attempt, lastError, chunks, result, index,
          envOK, deliveries, signal, waited, ranked, call, results, chat,
          awaiting, segment, segpc, stack, semantic, segmented>>

ingestVars == <<sources, queue, cur, pc, attempt, lastError, chunks, result,
                index, envOK, deliveries, signal, waited>>
retrieveVars == <<ranked, call, results, chat, awaiting>>
segmentVars == <<segment, segpc, stack, semantic, segmented>>

(***************************************************************************)
(* Data                                                                    *)
(***************************************************************************)
NoRow ==
  [present |-> FALSE, deleted |-> FALSE, agent_id |-> 0, status |-> "none",
   processing_stage |-> "none", progress_percentage |-> 0,
   metadata |-> "none"]

NoMsg == [sourceId |-> 0, agentId |-> 0, retryCount |-> 0,
          type |-> "none", text |-> "none", nchunks |-> 0]

NoResult == [success |-> FALSE, chunks_count |-> 0, error |-> "not_run"]

NoSignal == [ack |-> 0, retry |-> 0, ok |-> FALSE, job |-> NoMsg,
             sent |-> NoMsg]

NoChunk == [st |-> "none", try |-> 0, res |-> "none", landed |-> FALSE,
            waited |-> 0]

\* data of a submission: its declared type (doc, docx and pptx are handled
\* as text is), its content as the submit handler pre-extracted it (empty: ''
\* or null; blank: white space only; short: under 10 characters; ok), and
\* the number of chunks segmentation makes of the text that extraction
\* returns for it
Payloads ==
  {[type |-> "text", text |-> "empty", nchunks |-> 0],
   [type |-> "pdf", text |-> "empty", nchunks |-> 1],
   [type |-> "text", text |-> "blank", nchunks |-> 0],
   [type |-> "text", text |-> "short", nchunks |-> 0]}
  \cup {[type |-> "text", text |-> "ok", nchunks |-> n] : n \in 0..MaxChunks}

ChunkKeys == [agent_id : AgentIds, knowledge_source_id : SourceIds,
              chunk_index : ChunkIdx]

Key(a, s, i) == [agent_id |-> a, knowledge_source_id |-> s, chunk_index |-> i]

\* UPDATE knowledge_sources SET ... WHERE id = s (no row: nothing changes)
UpdateRow(tbl, s, status, stage, pct, meta) ==
  IF s \in SourceIds /\ tbl[s].present
  THEN [tbl EXCEPT ![s] = [@ EXCEPT !.status = status,
                                    !.processing_stage = stage,
                                    !.progress_percentage = pct,
                                    !.metadata = meta]]
  ELSE tbl

SetStatus(tbl, s, status) ==
  IF s \in SourceIds /\ tbl[s].present
  THEN [tbl EXCEPT ![s].status = status]
  ELSE tbl

updateProgress(tbl, s, pct, stage) ==
  IF s \in SourceIds /\ tbl[s].present
  THEN [tbl EXCEPT ![s] = [@ EXCEPT !.progress_percentage = pct,
                                    !.processing_stage = stage]]
  ELSE tbl

(***************************************************************************)
(* Initial state: empty table, empty queue, empty index, consumer idle.    *)
(***************************************************************************)
EmptyIndex == [k \in ChunkKeys |-> 0]

NoAwait == [on |-> "none", answer |-> "none"]

\* a call of findRelevantChunks; contextWindow is the context_window of the
\* agent's knowledge settings at the time of the call
NoCall == [agentId |-> 0, maxChunks |-> 0, threshold |-> 0,
           searchStrategy |-> "none", contextWindow |-> 0, indexOK |-> TRUE]

NoContext == [block |-> FALSE, parts |-> <<>>]

\* a chat turn: the agent, its knowledge settings, what the index and the
\* language model did, the user message sent to the model and the HTTP status
NoChat == [agentId |-> 0, enable_rag |-> FALSE, search_strategy |-> "none",
           indexOK |-> TRUE, llmOK |-> TRUE, llmCalled |-> FALSE,
           contextMessage |-> NoContext, status |-> 0]

NoSegment == [text |-> <<>>, maxChunkSize |-> 0, overlap |-> 0,
              strategy |-> "none"]

NoSplit == [content |-> <<>>, start |-> 0, parts |-> <<>>]

NoSemantic == [breakpoints |-> <<>>, i |-> 0, split |-> NoSplit]

\* No chunkTextSemantically call is in progress
SegmentIdle ==
  /\ segment = NoSegment
  /\ segpc = "idle"
  /\ stack = <<>>
  /\ semantic = NoSemantic
  /\ segmented = <<>>

InitIngest ==
  /\ sources = [s \in SourceIds |-> NoRow]
  /\ queue = {}
  /\ cur = NoMsg
  /\ pc = "idle"
  /\ attempt = 0
  /\ lastError = "none"
  /\ chunks = [i \in ChunkIdx |-> NoChunk]
  /\ result = NoResult
  /\ index = EmptyIndex
  /\ envOK \in BOOLEAN
  /\ deliveries = [s \in SourceIds |-> 0]
  /\ signal = NoSignal
  /\ waited = 0

Init ==
  /\ InitIngest
  /\ ranked = <<>>
  /\ call = NoCall
  /\ results = <<>>
  /\ chat = NoChat
  /\ awaiting = NoAwait
  /\ SegmentIdle

(***************************************************************************)
(* POST /api/agents/:agentId/knowledge-sources: insert the row (pending,   *)
(* 0 %, initializing) and send the job with retryCount 0.                  *)
(***************************************************************************)
NextSourceId ==
  IF \E s \in SourceIds : ~sources[s].present /\ ~sources[s].deleted
  THEN CHOOSE s \in SourceIds :
         /\ ~sources[s].present /\ ~sources[s].deleted
         /\ \A t \in SourceIds :
              (~sources[t].present /\ ~sources[t].deleted) => s <= t
  ELSE 0

submitKnowledgeSource(a, p) ==
  /\ NextSourceId \in SourceIds
  /\ LET s == NextSourceId IN
       /\ sources' = [sources EXCEPT ![s] =
            [present |-> TRUE, deleted |-> FALSE, agent_id |-> a,
             status |-> "pending", processing_stage |-> "initializing",
             progress_percentage |-> 0, metadata |-> "none"]]
       /\ queue' = queue \cup
            {[sourceId |-> s, agentId |-> a, retryCount |-> 0,
              type |-> p.type, text |-> p.text, nchunks |-> p.nchunks]}
  /\ UNCHANGED <<cur, pc, attempt, lastError, chunks, result, index,
                 envOK, deliveries, signal>>
  /\ UNCHANGED waited
  /\ UNCHANGED <<retrieveVars, segmentVars>>

(***************************************************************************)
(* queueHandler, lines 1593-1600: take a message of the batch and set the  *)
(* source to processing; then enter the retry loop with attempt = 1.       *)
(***************************************************************************)
queueHandlerDeliver(m) ==
  /\ pc = "idle"
  /\ m \in queue
  /\ deliveries[m.sourceId] < MaxDeliveries
  /\ queue' = queue \ {m}
  /\ cur' = m
  /\ deliveries' = [deliveries EXCEPT ![m.sourceId] = @ + 1]
  /\ sources' = SetStatus(sources, m.sourceId, "processing")
  /\ attempt' = 1
  /\ lastError' = "none"
  /\ result' = NoResult
  /\ chunks' = [i \in ChunkIdx |-> NoChunk]
  /\ pc' = "attempt"
  /\ waited' = 0
  /\ UNCHANGED <<index,  envOK, signal>>
  /\ UNCHANGED <<retrieveVars, segmentVars>>

(***************************************************************************)
(* processKnowledgeSourcePineconeWithRetry, lines 1299-1302: top of the    *)
(* loop body, updateProgress(5, 'initializing').                           *)
(***************************************************************************)
WithRetryBeginAttempt ==
  /\ pc = "attempt"
  /\ sources' = updateProgress(sources, cur.sourceId, 5, "initializing")
  /\ pc' = "start"
  /\ UNCHANGED <<queue, cur, attempt, lastError, chunks, result, index,
                 envOK, deliveries, signal>>
  /\ UNCHANGED waited
  /\ UNCHANGED <<retrieveVars, segmentVars>>

(***************************************************************************)
(* processKnowledgeSourcePinecone, lines 1327-1405. Missing secrets throw  *)
(* before the try block, so the catch of 1449 does not run. Otherwise the  *)
(* status becomes processing and progress runs 10, 15, 60 (the file branch *)
(* of 1368 is dead for queued jobs: data.file is null in the message).     *)
(***************************************************************************)
PineconeStart ==
  /\ pc = "start"
  /\ IF ~envOK
     THEN /\ lastError' = "EnvMissing"
          /\ pc' = "caught"
          /\ UNCHANGED sources
     ELSE /\ sources' = updateProgress(
               SetStatus(sources, cur.sourceId, "processing"),
               cur.sourceId, 60, "processing")
          /\ pc' = "extract"
          /\ UNCHANGED lastError
  /\ UNCHANGED <<queue, cur, attempt, chunks, result, index,  envOK,
                 deliveries, signal>>
  /\ UNCHANGED waited
  /\ UNCHANGED <<retrieveVars, segmentVars>>

(***************************************************************************)
(* PineconeRAGProcessor.processKnowledgeSource, lines 76-205: extraction   *)
(* (60 s race), validation of the text, segmentation (120 s race).  Every  *)
(* throw is caught at 279 and returned as {success: false, error}.         *)
(***************************************************************************)
\* extractContent, lines 82-152: a text (doc, docx, pptx) source without
\* content throws; a pdf without content yields the text 'Legacy PDF: <name>
\* - Please re-upload this PDF for processing.'; other content is returned
extractContent(type, content) ==
  IF content # "empty" THEN content
  ELSE IF type = "pdf" THEN "legacy"
  ELSE "throw"

ValidateContent(text, nchunks) ==
  IF text = "throw" THEN "ContentRequired"       \* line 100
  ELSE IF text = "blank" THEN "EmptyContent"     \* line 164
  ELSE IF text = "short" THEN "ContentTooShort"  \* line 174
  ELSE IF nchunks = 0 THEN "ChunkingFailed"      \* line 201
  ELSE "none"

StructuralErrors == {"EmptyContent", "ContentTooShort", "ChunkingFailed"}

FreshChunk == [st |-> "run", try |-> 1, res |-> "none", landed |-> FALSE,
               waited |-> 0]

processKnowledgeSourceExtract(transient) ==
  /\ pc = "extract"
  /\ LET error == IF transient THEN "ExtractionFailed"
                  ELSE ValidateContent(extractContent(cur.type, cur.text),
                                       cur.nchunks) IN
       IF error # "none"
       THEN /\ result' = [success |-> FALSE, chunks_count |-> 0,
                          error |-> error]
            /\ pc' = "failed"
            /\ UNCHANGED chunks
       ELSE /\ chunks' = [i \in DOMAIN chunks |->
                            IF i < cur.nchunks THEN FreshChunk ELSE NoChunk]
            /\ result' = NoResult
            /\ pc' = "store"
  /\ UNCHANGED <<sources, queue, cur, attempt, lastError, index,  envOK,
                 deliveries, signal>>
  /\ UNCHANGED waited
  /\ UNCHANGED <<retrieveVars, segmentVars>>

\* chunkText inside the 120 s race of lines 189-199: the race's timer is a
\* callback of the same event loop, so it abandons a segmentation that awaits
\* (the embedding call) but not one that loops: simpleCharacterSplit
\* (semantic-chunker.ts 499-514) does not return for chunk_overlap > 0, and
\* processKnowledgeSource stays in the segmentation
chunkTextSpins ==
  /\ pc = "extract"
  /\ ValidateContent(extractContent(cur.type, cur.text), cur.nchunks)
       \notin {"ContentRequired", "EmptyContent", "ContentTooShort"}
  /\ pc' = "chunking"
  /\ UNCHANGED <<sources, queue, cur, attempt, lastError, chunks, result,
                 index, envOK, deliveries, signal>>
  /\ UNCHANGED waited
  /\ UNCHANGED <<retrieveVars, segmentVars>>

(***************************************************************************)
(* The store loop, lines 216-257: batches of batchSize chunks; the chunks  *)
(* of a batch run concurrently (Promise.all), a batch starts when every    *)
(* chunk of the batches before it has settled.                             *)
(***************************************************************************)
Settled(c) == c.st \in {"ok", "fail"}

BatchOf(i) == i \div batchSize

InCurrentBatch(i) ==
  \A j \in DOMAIN chunks :
    (j < cur.nchunks /\ BatchOf(j) < BatchOf(i)) => Settled(chunks[j])

Max(a, b) == IF a >= b THEN a ELSE b

(***************************************************************************)
(* One try of PineconeVectorStore.addDocument (lines 63-132) for chunk i,  *)
(* raced against the 30 s storage timeout of rag-processor 229-248.        *)
(*   outcome  ok: embedding and upsert returned; err: one of them threw;   *)
(*            timeout: one of the inner 30 s races rejected                *)
(*   landed   the upsert reached the index (the races of 76 and 109 do not *)
(*            cancel the call they abandon)                                *)
(*   expired  the outer 30 s timer fired before this try returned; an      *)
(*            inner timeout implies it, both timers run 30 s from the      *)
(*            start of the call                                            *)
(* After the outer timer has fired the chunk is counted as failed, while   *)
(* addDocument keeps running its remaining tries (addDocumentLateTry).     *)
(***************************************************************************)
TryAllowed(outcome, landed, expired) ==
  /\ (outcome = "ok") => landed
  /\ (outcome = "err") => ~landed
  /\ (outcome = "timeout") => expired

\* line 128: Math.min(1000 * Math.pow(2, attempt - 1), 5000), the wait of
\* the try that has failed
addDocumentWaitTime(n) ==
  Min(addDocumentBaseDelay * 2 ^ (n - 1), addDocumentMaxDelay)

\* the per-chunk state after a try that the caller still awaits
AfterTry(c, outcome, landed) ==
  IF outcome = "ok"
  THEN [st |-> "ok", try |-> c.try, res |-> "ok", landed |-> TRUE,
        waited |-> c.waited]
  ELSE IF c.try < addDocumentMaxRetries            \* line 127: back off
  THEN [st |-> "run", try |-> c.try + 1, res |-> outcome,
        landed |-> c.landed \/ landed,
        waited |-> c.waited + addDocumentWaitTime(c.try)]
  ELSE [st |-> "fail", try |-> c.try, res |-> outcome,      \* line 135
        landed |-> c.landed \/ landed, waited |-> c.waited]

\* the per-chunk state once the storage timeout has rejected (line 246)
AfterExpiry(c, outcome, landed) ==
  [st |-> "fail", try |-> c.try, res |-> outcome,
   landed |-> c.landed \/ landed, waited |-> c.waited]

Upsert(idx, k, landed) ==
  IF landed THEN [idx EXCEPT ![k] = @ + 1] ELSE idx

addDocumentTry(i, outcome, landed, expired) ==
  /\ pc = "store"
  /\ i < cur.nchunks
  /\ chunks[i].st = "run"
  /\ InCurrentBatch(i)
  /\ TryAllowed(outcome, landed, expired)
  /\ LET k == Key(cur.agentId, cur.sourceId, i) IN
       /\ landed => index[k] < MaxCopies
       /\ index' = Upsert(index, k, landed)
  /\ chunks' = [chunks EXCEPT ![i] =
       IF expired THEN AfterExpiry(@, outcome, landed)
       ELSE AfterTry(@, outcome, landed)]
  /\ UNCHANGED <<sources, queue, cur, pc, attempt, lastError, result, envOK,
                 deliveries, signal>>
  /\ UNCHANGED waited
  /\ UNCHANGED <<retrieveVars, segmentVars>>

(***************************************************************************)
(* A further try of an addDocument call that the storage timeout has       *)
(* abandoned: the loop of lines 63-132 goes on, it still writes to the     *)
(* index, and nobody counts it.                                            *)
(***************************************************************************)
Abandoned(c) ==
  c.st = "fail" /\ c.res # "ok" /\ c.try < addDocumentMaxRetries

addDocumentLateTry(i, outcome, landed) ==
  /\ pc # "idle"
  /\ Abandoned(chunks[i])
  /\ TryAllowed(outcome, landed, TRUE)
  /\ LET k == Key(cur.agentId, cur.sourceId, i) IN
       /\ landed => index[k] < MaxCopies
       /\ index' = Upsert(index, k, landed)
  /\ chunks' = [chunks EXCEPT ![i] =
       [@ EXCEPT !.try = @ + 1, !.res = outcome,
                 !.landed = @ \/ landed,
                 !.waited = @ + addDocumentWaitTime(chunks[i].try)]]
  /\ UNCHANGED <<sources, queue, cur, pc, attempt, lastError, result,
                 envOK, deliveries, signal>>
  /\ UNCHANGED waited
  /\ UNCHANGED <<retrieveVars, segmentVars>>

(***************************************************************************)
(* processKnowledgeSource, lines 259-289: the success policy.              *)
(***************************************************************************)
successCount == Cardinality({i \in DOMAIN chunks : chunks[i].st = "ok"})

StoreResult(count, total) ==
  IF count = 0
  THEN [success |-> FALSE, chunks_count |-> 0, error |-> "StorageFailed"]
  ELSE [success |-> TRUE, chunks_count |-> count,
        error |-> IF count < total THEN "PartialSuccess" ELSE "none"]

processKnowledgeSourceResult ==
  /\ pc = "store"
  /\ \A i \in DOMAIN chunks : i < cur.nchunks => Settled(chunks[i])
  /\ result' = StoreResult(successCount, cur.nchunks)
  /\ pc' = IF result'.success THEN "finalize" ELSE "failed"
  /\ UNCHANGED <<sources, queue, cur, attempt, lastError, chunks, index,
                 envOK, deliveries, signal>>
  /\ UNCHANGED waited
  /\ UNCHANGED <<retrieveVars, segmentVars>>

(***************************************************************************)
(* processKnowledgeSourcePinecone, lines 1414-1417 and 1449-1471: a failed *)
(* result is thrown, the catch marks the source failed (0 %, stage failed, *)
(* error and stack in metadata) and rethrows.                              *)
(***************************************************************************)
PineconeCatch ==
  /\ pc = "failed"
  /\ sources' = UpdateRow(sources, cur.sourceId, "failed", "failed", 0,
                          "error_stack")
  /\ lastError' = result.error
  /\ pc' = "caught"
  /\ UNCHANGED <<queue, cur, attempt, chunks, result, index,  envOK,
                 deliveries, signal>>
  /\ UNCHANGED waited
  /\ UNCHANGED <<retrieveVars, segmentVars>>

(***************************************************************************)
(* processKnowledgeSourcePinecone, lines 1420-1447: completed, 100 %.      *)
(***************************************************************************)
PineconeFinalize ==
  /\ pc = "finalize"
  /\ sources' = UpdateRow(sources, cur.sourceId, "completed", "completed",
                          100, "chunks")
  /\ pc' = "returned"
  /\ UNCHANGED <<queue, cur, attempt, lastError, chunks, result, index,
                 envOK, deliveries, signal>>
  /\ UNCHANGED waited
  /\ UNCHANGED <<retrieveVars, segmentVars>>

(***************************************************************************)
(* processKnowledgeSourcePineconeWithRetry, lines 1308-1323: the catch of  *)
(* the loop. Whatever the error, attempts below maxRetries set the stage   *)
(* retrying (10 %), wait, and run the ingest again; the last one rethrows. *)
(***************************************************************************)
ShouldRetryAttempt(n, error) == n < maxRetries

\* line 1313: Math.min(1000 * Math.pow(2, attempt - 1), 30000), the wait
\* of the attempt that has failed
waitTimeFlat(n) == Min(retryBaseDelay, retryMaxDelay)

waitTime(n) == Min(retryBaseDelay * 2 ^ (n - 1), retryMaxDelay)

WithRetryCatch ==
  /\ pc = "caught"
  /\ IF ShouldRetryAttempt(attempt, lastError)
     THEN /\ sources' = updateProgress(sources, cur.sourceId, 10, "retrying")
          /\ waited' = waited + waitTime(attempt)
          /\ attempt' = attempt + 1
          /\ pc' = "attempt"
     ELSE /\ pc' = "thrown"
          /\ UNCHANGED <<sources, attempt, waited>>
  /\ UNCHANGED <<queue, cur, lastError, chunks, result, index,  envOK,
                 deliveries, signal>>
  /\ UNCHANGED <<retrieveVars, segmentVars>>

(***************************************************************************)
(* queueHandler, lines 1605-1606: the ingest returned, message.ack().      *)
(***************************************************************************)
ack(sig) == [sig EXCEPT !.ack = @ + 1]

retry(sig, body) == [sig EXCEPT !.retry = @ + 1, !.sent = body]

NewSignal(job, ok) == [ack |-> 0, retry |-> 0, ok |-> ok, job |-> job,
                       sent |-> NoMsg]

queueHandlerAck ==
  /\ pc = "returned"
  /\ signal' = ack(NewSignal(cur, TRUE))
  /\ cur' = NoMsg
  /\ pc' = "idle"
  /\ UNCHANGED <<sources, queue, attempt, lastError, chunks, result, index,
                 envOK, deliveries>>
  /\ UNCHANGED waited
  /\ UNCHANGED <<retrieveVars, segmentVars>>

(***************************************************************************)
(* queueHandler, lines 1608-1626: the ingest threw. retryCount + 1 <= 3:   *)
(* message.retry with the incremented count; else status failed and ack.   *)
(* The queue redelivers the body handed to retry (spec 6, Job Queue).      *)
(***************************************************************************)
RetryAllowedOneMore(retryCount) == retryCount <= jobRetryCap + 1

RetryAllowedOneLess(retryCount) == retryCount < jobRetryCap

RetryAllowed(retryCount) == retryCount <= jobRetryCap

queueHandlerCatch ==
  /\ pc = "thrown"
  /\ LET retryCount == cur.retryCount + 1
         body == [cur EXCEPT !.retryCount = retryCount] IN
       IF RetryAllowed(retryCount)
       THEN /\ signal' = retry(NewSignal(cur, FALSE), body)
            /\ queue' = queue \cup {signal'.sent}
            /\ UNCHANGED sources
       ELSE /\ sources' = SetStatus(sources, cur.sourceId, "failed")
            /\ signal' = ack(NewSignal(cur, FALSE))
            /\ UNCHANGED queue
  /\ cur' = NoMsg
  /\ pc' = "idle"
  /\ UNCHANGED <<attempt, lastError, chunks, result, index, envOK,
                 deliveries>>
  /\ UNCHANGED waited
  /\ UNCHANGED <<retrieveVars, segmentVars>>

(***************************************************************************)
(* DELETE /api/knowledge-sources/:sourceId, lines 830-866: deleteDocuments *)
(* is called with the source id in the place of the agent id; an error of  *)
(* the index is logged and the row is deleted all the same.                *)
(***************************************************************************)
deleteDocuments(idx, agentId, knowledgeSourceId) ==
  [k \in ChunkKeys |->
     IF k.agent_id = agentId /\ k.knowledge_source_id = knowledgeSourceId
     THEN 0 ELSE idx[k]]

deleteKnowledgeSource(s, indexOK) ==
  /\ sources[s].present
  /\ index' = IF indexOK THEN deleteDocuments(index, s, s) ELSE index
  /\ sources' = [sources EXCEPT ![s] = [NoRow EXCEPT !.deleted = TRUE]]
  /\ UNCHANGED <<queue, cur, pc, attempt, lastError, chunks, result,
                 envOK, deliveries, signal>>
  /\ UNCHANGED waited
  /\ UNCHANGED <<retrieveVars, segmentVars>>

(***************************************************************************)
(* Retrieval.  Scores are in thousandths: 700 is a similarity of 0.7.      *)
(* A document of the index, seen from one query, is its key, its cosine    *)
(* score against the query embedding and the share of the query keywords   *)
(* its text contains (calculateKeywordSimilarity).                         *)
(***************************************************************************)
Scores == {400, 600, 800}
KeywordScores == {0, 1000}
Thresholds == {500, 700, 900}

defaultThreshold == 700     \* searchSimilar's default, pinecone-store:143
hybridThreshold == 500      \* hybridSearch's relaxed floor, pinecone-store:211
vectorWeight == 8           \* tenths, pinecone-store:206
keywordWeight == 2          \* tenths, pinecone-store:207
contextWindow == 2          \* the literal 2 of rag-processor:313

Doc(k, score, kw) ==
  [agent_id |-> k.agent_id, knowledge_source_id |-> k.knowledge_source_id,
   chunk_index |-> k.chunk_index, score |-> score, kw |-> kw]

Take(seq, n) == SubSeq(seq, 1, Min(n, Len(seq)))

\* the query without its agent_id filter
QueryAnyAgent(docs, agentId, topK) == Take(docs, topK)

\* index.namespace(ns).query({topK, filter: {agent_id: {$eq: agentId}}}):
\* the topK best-ranked documents that pass the filter
Query(docs, agentId, topK) ==
  LET Pass(d) == d.agent_id = agentId IN Take(SelectSeq(docs, Pass), topK)

\* searchSimilar without the slice(0, limit) of line 194
searchSimilarNoSlice(docs, agentId, limit, threshold) ==
  LET matches == Query(docs, agentId, limit * 2)
      Keep(m) == m.score >= threshold
      AsResult(m) ==
        [agent_id |-> m.agent_id,
         knowledge_source_id |-> m.knowledge_source_id,
         chunk_index |-> m.chunk_index, similarity |-> m.score,
         kw |-> m.kw, content |-> <<m.chunk_index>>,
         has_context |-> FALSE]
      kept == SelectSeq(matches, Keep)
  IN [j \in 1..Len(kept) |-> AsResult(kept[j])]

\* PineconeVectorStore.searchSimilar, lines 139-199
searchSimilar(docs, agentId, limit, threshold) ==
  LET matches == Query(docs, agentId, limit * 2)
      Keep(m) == m.score >= threshold
      AsResult(m) ==
        [agent_id |-> m.agent_id,
         knowledge_source_id |-> m.knowledge_source_id,
         chunk_index |-> m.chunk_index, similarity |-> m.score,
         kw |-> m.kw, content |-> <<m.chunk_index>>,
         has_context |-> FALSE]
      kept == SelectSeq(matches, Keep)
  IN Take([j \in 1..Len(kept) |-> AsResult(kept[j])], limit)

\* Array.prototype.sort((a, b) => b.similarity - a.similarity): stable
RECURSIVE InsertDesc(_, _)
InsertDesc(x, sorted) ==
  IF sorted = <<>> THEN <<x>>
  ELSE IF sorted[Len(sorted)].similarity >= x.similarity
  THEN Append(sorted, x)
  ELSE Append(InsertDesc(x, SubSeq(sorted, 1, Len(sorted) - 1)),
              sorted[Len(sorted)])

RECURSIVE SortDesc(_)
SortDesc(seq) ==
  IF seq = <<>> THEN <<>>
  ELSE InsertDesc(seq[Len(seq)], SortDesc(SubSeq(seq, 1, Len(seq) - 1)))

\* PineconeVectorStore.hybridSearch, lines 202-238
hybridSearch(docs, agentId, limit) ==
  LET vectorResults == searchSimilar(docs, agentId, limit * 2, hybridThreshold)
      Enhance(r) ==
        [r EXCEPT !.similarity =
           (r.similarity * vectorWeight + r.kw * keywordWeight) \div 10]
      enhancedResults == [j \in 1..Len(vectorResults) |->
                            Enhance(vectorResults[j])]
  IN Take(SortDesc(enhancedResults), limit)

\* Array.prototype.sort((a, b) => a.chunk_index - b.chunk_index): stable
RECURSIVE InsertAsc(_, _)
InsertAsc(x, sorted) ==
  IF sorted = <<>> THEN <<x>>
  ELSE IF sorted[Len(sorted)].chunk_index <= x.chunk_index
  THEN Append(sorted, x)
  ELSE Append(InsertAsc(x, SubSeq(sorted, 1, Len(sorted) - 1)),
              sorted[Len(sorted)])

RECURSIVE SortAsc(_)
SortAsc(seq) ==
  IF seq = <<>> THEN <<>>
  ELSE InsertAsc(seq[Len(seq)], SortAsc(SubSeq(seq, 1, Len(seq) - 1)))

\* PineconeVectorStore.contextualSearch, lines 241-307.  The content of a
\* result is the sequence of the chunk positions whose texts it joins.
contextualSearch(docs, agentId, limit, window) ==
  LET hits == searchSimilar(docs, agentId, limit, defaultThreshold)
      Expand(r) ==
        LET InWindow(d) ==
              /\ d.agent_id = agentId
              /\ d.knowledge_source_id = r.knowledge_source_id
              /\ d.chunk_index >= Max(0, r.chunk_index - window)
              /\ d.chunk_index <= r.chunk_index + window
            contextResults == Take(SelectSeq(docs, InWindow), window * 2 + 1)
            contextChunks == SortAsc(contextResults)
        IN IF Len(contextChunks) > 1
           THEN [r EXCEPT !.content = [j \in 1..Len(contextChunks) |->
                                         contextChunks[j].chunk_index],
                          !.has_context = TRUE]
           ELSE r
  IN [j \in 1..Len(hits) |-> Expand(hits[j])]

\* PineconeRAGProcessor.findRelevantChunks, lines 293-329: indexOK = FALSE
\* is a throw of the embedding call or of the index, caught at 325
findRelevantChunks(docs, agentId, maxChunks, threshold, strategy, indexOK) ==
  IF ~indexOK THEN <<>>
  ELSE IF strategy = "vector"
  THEN searchSimilar(docs, agentId, maxChunks, threshold)
  ELSE IF strategy = "contextual"
  THEN contextualSearch(docs, agentId, maxChunks, contextWindow)
  ELSE hybridSearch(docs, agentId, maxChunks)

(***************************************************************************)
(* POST /api/agents/:agentId/execute, lines 465-503, for an agent whose    *)
(* knowledge settings are the defaults of lines 896 (3 chunks, 0.7,        *)
(* hybrid): the chunks the chat turn puts into its context for a query     *)
(* that scores queryScore against every stored chunk.                      *)
(***************************************************************************)
defaultMaxChunks == 3       \* index.ts:896

RECURSIVE IndexDocs(_, _, _)
IndexDocs(idx, keys, queryScore) ==
  IF keys = {} THEN <<>>
  ELSE LET k == CHOOSE x \in keys : TRUE
       IN [j \in 1..idx[k] |-> Doc(k, queryScore, 0)]
            \o IndexDocs(idx, keys \ {k}, queryScore)

retrieveContext(agentId, queryScore) ==
  findRelevantChunks(IndexDocs(index, ChunkKeys, queryScore), agentId,
                     defaultMaxChunks, defaultThreshold, "hybrid", TRUE)

NextIngest ==
  \/ \E a \in AgentIds, p \in Payloads : submitKnowledgeSource(a, p)
  \/ \E m \in queue : queueHandlerDeliver(m)
  \/ WithRetryBeginAttempt
  \/ PineconeStart
  \/ \E transient \in BOOLEAN : processKnowledgeSourceExtract(transient)
  \/ chunkTextSpins
  \/ \E i \in ChunkIdx, outcome \in {"ok", "err", "timeout"},
        landed \in BOOLEAN, expired \in BOOLEAN :
       addDocumentTry(i, outcome, landed, expired)
  \/ \E i \in ChunkIdx, outcome \in {"ok", "err", "timeout"},
        landed \in BOOLEAN : addDocumentLateTry(i, outcome, landed)
  \/ processKnowledgeSourceResult
  \/ PineconeCatch
  \/ PineconeFinalize
  \/ WithRetryCatch
  \/ queueHandlerAck
  \/ queueHandlerCatch
  \/ \E s \in SourceIds, indexOK \in BOOLEAN : deleteKnowledgeSource(s, indexOK)

Next == NextIngest

Spec == Init /\ [][Next]_vars

(***************************************************************************)
(* FairSpec: the worker runs.  The queue delivers a waiting message to an  *)
(* idle handler, and a handler that is at a step takes it: every await of  *)
(* the ingest path is either a local step or raced against a timer.        *)
(***************************************************************************)
queueHandlerStep ==
  \/ \E m \in queue : queueHandlerDeliver(m)
  \/ WithRetryBeginAttempt
  \/ PineconeStart
  \/ \E transient \in BOOLEAN : processKnowledgeSourceExtract(transient)
  \/ chunkTextSpins
  \/ \E i \in ChunkIdx, outcome \in {"ok", "err", "timeout"},
        landed \in BOOLEAN, expired \in BOOLEAN :
       addDocumentTry(i, outcome, landed, expired)
  \/ processKnowledgeSourceResult
  \/ PineconeCatch
  \/ PineconeFinalize
  \/ WithRetryCatch
  \/ queueHandlerAck
  \/ queueHandlerCatch

FairSpec == Spec /\ WF_vars(queueHandlerStep)

(***************************************************************************)
(* SpecBatch: the store loop of processKnowledgeSource (rag-processor      *)
(* 216-257) on a source that segmentation cuts into more chunks than one   *)
(* batch holds, from the point where the third progress update (60 %) has  *)
(* been written.  A call to the services is either answered, and its       *)
(* vector stored, or not answered at all.                                  *)
(***************************************************************************)
MaxStoreChunks == 6      \* chunks of the source of SpecBatch

BatchIdx == 0..(MaxStoreChunks - 1)

BatchKeys == [agent_id : {1}, knowledge_source_id : {1}, chunk_index : BatchIdx]

InitBatch ==
  /\ sources = [s \in SourceIds |->
       [present |-> TRUE, deleted |-> FALSE, agent_id |-> 1,
        status |-> "processing", processing_stage |-> "processing",
        progress_percentage |-> 60, metadata |-> "none"]]
  /\ queue = {}
  /\ cur = [sourceId |-> 1, agentId |-> 1, retryCount |-> 0,
            type |-> "text", text |-> "ok", nchunks |-> MaxStoreChunks]
  /\ pc = "extract"
  /\ attempt = 1
  /\ lastError = "none"
  /\ chunks = [i \in BatchIdx |-> NoChunk]
  /\ result = NoResult
  /\ index = [k \in BatchKeys |-> 0]
  /\ envOK = TRUE
  /\ deliveries = [s \in SourceIds |-> 1]
  /\ signal = NoSignal
  /\ waited = 0
  /\ ranked = <<>>
  /\ call = NoCall
  /\ results = <<>>
  /\ chat = NoChat
  /\ awaiting = NoAwait
  /\ SegmentIdle

NextBatch ==
  \/ processKnowledgeSourceExtract(FALSE)
  \/ \E i \in BatchIdx, outcome \in {"ok", "timeout"},
        expired \in BOOLEAN :
       addDocumentTry(i, outcome, outcome = "ok", expired)
  \/ \E i \in BatchIdx, outcome \in {"ok", "timeout"} :
       addDocumentLateTry(i, outcome, outcome = "ok")
  \/ processKnowledgeSourceResult

SpecBatch == InitBatch /\ [][NextBatch]_vars

(***************************************************************************)
(* SpecRetrieve: findRelevantChunks on an index whose documents, ranked by *)
(* the index for the query at hand, are drawn from bounded sets.  Source s *)
(* belongs to agent OwnerOf(s).                                            *)
(***************************************************************************)
OwnerOf(s) == ((s - 1) % NumAgents) + 1

RankedSourceIds == 1..NumAgents

RankedPositions == 0..MaxPosition

RankedDocs ==
  {Doc(Key(OwnerOf(s), s, i), sc, kw) :
     s \in RankedSourceIds, i \in RankedPositions, sc \in Scores,
     kw \in KeywordScores}

RankedIndexes ==
  {r \in UNION {[1..n -> RankedDocs] : n \in 0..MaxMatches} :
     \A j \in 1..(Len(r) - 1) : r[j].score >= r[j + 1].score}

SearchStrategies == {"vector", "hybrid", "contextual", "cosine"}

InitRetrieve ==
  /\ InitIngest
  /\ envOK
  /\ ranked \in RankedIndexes
  /\ call = NoCall
  /\ results = <<>>
  /\ chat = NoChat
  /\ awaiting = NoAwait
  /\ SegmentIdle

\* context_window of the agent's settings: z.number().min(1).max(5)
ContextWindows == 1..MaxWindow

\* a direct call of findRelevantChunks on behalf of an agent whose settings
\* hold context_window = window (the signature has no parameter for it)
retrieve(agentId, maxChunks, threshold, searchStrategy, window, indexOK) ==
  /\ call = NoCall
  /\ chat = NoChat
  /\ (searchStrategy # "contextual") => window = contextWindow
  /\ call' = [agentId |-> agentId, maxChunks |-> maxChunks,
              threshold |-> threshold, searchStrategy |-> searchStrategy,
              contextWindow |-> window, indexOK |-> indexOK]
  /\ results' = findRelevantChunks(ranked, agentId, maxChunks, threshold,
                                   searchStrategy, indexOK)
  /\ UNCHANGED <<ranked, chat, awaiting>>
  /\ UNCHANGED <<ingestVars, segmentVars>>

(***************************************************************************)
(* POST /api/agents/:agentId/execute (index.ts 432-543) and POST           *)
(* /api/widget/agents/:agentId/chat (1160-1268): with a settings row whose *)
(* enable_rag is 1, findRelevantChunks is called with the row's            *)
(* max_chunks_per_query, similarity_threshold and search_strategy; a       *)
(* non-empty answer becomes the context block of the user message; the     *)
(* language model is called; its failure is answered with status 500.      *)
(***************************************************************************)
\* search_strategy as the settings endpoint admits it (z.enum)
SettingsStrategies == {"cosine", "euclidean", "hybrid"}

buildContextMessageAlways(relevantChunks) ==
  [block |-> TRUE, parts |-> relevantChunks]

buildContextMessage(relevantChunks) ==
  IF Len(relevantChunks) > 0
  THEN [block |-> TRUE, parts |-> relevantChunks]
  ELSE NoContext

executeAgent(agentId, enable_rag, maxChunks, search_strategy, indexOK, llmOK) ==
  /\ call = NoCall
  /\ chat = NoChat
  /\ IF enable_rag
     THEN /\ call' = [agentId |-> agentId, maxChunks |-> maxChunks,
                      threshold |-> defaultThreshold,
                      searchStrategy |-> search_strategy,
                      contextWindow |-> contextWindow, indexOK |-> indexOK]
          /\ results' = findRelevantChunks(ranked, agentId, maxChunks,
                            defaultThreshold, search_strategy, indexOK)
     ELSE UNCHANGED <<call, results>>
  /\ chat' = [agentId |-> agentId, enable_rag |-> enable_rag,
              search_strategy |-> search_strategy, indexOK |-> indexOK,
              llmOK |-> llmOK, llmCalled |-> TRUE,
              contextMessage |->
                IF enable_rag THEN buildContextMessage(results')
                ELSE NoContext,
              status |-> IF llmOK THEN 200 ELSE 500]
  /\ UNCHANGED <<ranked, awaiting>>
  /\ UNCHANGED <<ingestVars, segmentVars>>

NextRetrieve ==
  \/ \E agentId \in AgentIds, maxChunks \in 1..MaxLimit,
        threshold \in Thresholds, searchStrategy \in SearchStrategies,
        window \in ContextWindows, indexOK \in BOOLEAN :
       retrieve(agentId, maxChunks, threshold, searchStrategy, window,
                indexOK)
  \/ \E agentId \in AgentIds, enable_rag \in BOOLEAN,
        maxChunks \in 1..MaxLimit, search_strategy \in SettingsStrategies,
        indexOK \in BOOLEAN, llmOK \in BOOLEAN :
       executeAgent(agentId, enable_rag, maxChunks, search_strategy,
                    indexOK, llmOK)

SpecRetrieve == InitRetrieve /\ [][NextRetrieve]_vars

(***************************************************************************)
(* SpecQuery: the awaits of one findRelevantChunks call.  searchSimilar    *)
(* (pinecone-store 147-192) awaits generateEmbedding (386-392), then the   *)
(* index query; contextualSearch (258-298) then awaits, under Promise.all, *)
(* one more embedding and one more query per result.  None of these awaits *)
(* is raced against a timer (addDocument's are, lines 76 and 109), so the  *)
(* call goes on when, and only when, the service has answered.             *)
(*   awaiting.on      embedding, query, context: the await reached         *)
(*   awaiting.answer  none: no answer yet; ok: resolved; err: rejected     *)
(***************************************************************************)
MaxQueryMatches == 1     \* vectors in the index of SpecQuery

InitQuery == InitRetrieve /\ Len(ranked) <= MaxQueryMatches

findRelevantChunksCall(agentId, maxChunks, searchStrategy) ==
  /\ call = NoCall
  /\ awaiting = NoAwait
  /\ call' = [agentId |-> agentId, maxChunks |-> maxChunks,
              threshold |-> defaultThreshold,
              searchStrategy |-> searchStrategy,
              contextWindow |-> contextWindow, indexOK |-> TRUE]
  /\ awaiting' = [on |-> "embedding", answer |-> "none"]
  /\ UNCHANGED <<ranked, results, chat>>
  /\ UNCHANGED <<ingestVars, segmentVars>>

\* the embedding service or the index answers the call in flight
serviceAnswers(ok) ==
  /\ awaiting.on \in {"embedding", "query", "context"}
  /\ awaiting.answer = "none"
  /\ awaiting' = [awaiting EXCEPT !.answer = IF ok THEN "ok" ELSE "err"]
  /\ UNCHANGED <<ranked, call, results, chat>>
  /\ UNCHANGED <<ingestVars, segmentVars>>

Returned == [on |-> "returned", answer |-> "none"]

\* the continuation of the await that was answered; a rejection is caught by
\* findRelevantChunks (rag-processor 325) and answered with no chunks,
\* except under contextualSearch's inner try, which keeps the results
searchSimilarResume ==
  /\ awaiting.answer # "none"
  /\ LET found == searchSimilar(ranked, call.agentId, call.maxChunks,
                                defaultThreshold)
         whole == findRelevantChunks(ranked, call.agentId, call.maxChunks,
                                     call.threshold, call.searchStrategy,
                                     TRUE)
     IN IF awaiting.on = "context"
        THEN /\ results' = IF awaiting.answer = "ok" THEN whole ELSE found
             /\ awaiting' = Returned
        ELSE IF awaiting.answer = "err"
        THEN /\ results' = <<>>
             /\ awaiting' = Returned
        ELSE IF awaiting.on = "embedding"
        THEN /\ awaiting' = [on |-> "query", answer |-> "none"]
             /\ UNCHANGED results
        ELSE IF call.searchStrategy = "contextual" /\ found # <<>>
        THEN /\ awaiting' = [on |-> "context", answer |-> "none"]
             /\ UNCHANGED results
        ELSE /\ results' = whole
             /\ awaiting' = Returned
  /\ UNCHANGED <<ranked, call, chat>>
  /\ UNCHANGED <<ingestVars, segmentVars>>

NextQuery ==
  \/ \E agentId \in AgentIds, maxChunks \in 1..MaxLimit,
        searchStrategy \in {"vector", "hybrid", "contextual"} :
       findRelevantChunksCall(agentId, maxChunks, searchStrategy)
  \/ \E ok \in BOOLEAN : serviceAnswers(ok)
  \/ searchSimilarResume

SpecQuery == InitQuery /\ [][NextQuery]_vars

\* the worker's event loop runs a continuation whose await has settled
FairQuery == SpecQuery /\ WF_vars(searchSimilarResume)

(***************************************************************************)
(* Segmentation: SemanticChunker (semantic-chunker.ts).                    *)
(*                                                                         *)
(* A text is kept run-length encoded: a sequence of runs [c, n], n > 0,    *)
(* adjacent runs of different characters.  The characters are the letters  *)
(* a, b, c, d (one per sentence of an input, so that sentences can be told *)
(* apart), "s" for a blank, "n" for a newline and "p" for a full stop.     *)
(* Every string operation the chunker uses is computed on that encoding    *)
(* with its exact character counts.                                        *)
(***************************************************************************)
Run(c, n) == [c |-> c, n |-> n]

IsSpace(c) == c \in {"s", "n"}       \* \s

IsPunct(c) == c = "p"                \* [.!?]

\* String.prototype.length
RECURSIVE length(_)
length(t) == IF t = <<>> THEN 0 ELSE t[1].n + length(Tail(t))

\* a + b
concat(t, u) ==
  IF t = <<>> THEN u
  ELSE IF u = <<>> THEN t
  ELSE IF t[Len(t)].c = u[1].c
  THEN SubSeq(t, 1, Len(t) - 1) \o <<Run(u[1].c, t[Len(t)].n + u[1].n)>>
         \o Tail(u)
  ELSE t \o u

\* String.prototype.trim
RECURSIVE trimStart(_)
trimStart(t) ==
  IF t # <<>> /\ IsSpace(t[1].c) THEN trimStart(Tail(t)) ELSE t

RECURSIVE trimEnd(_)
trimEnd(t) ==
  IF t # <<>> /\ IsSpace(t[Len(t)].c)
  THEN trimEnd(SubSeq(t, 1, Len(t) - 1)) ELSE t

trim(t) == trimEnd(trimStart(t))

\* String.prototype.slice(i) and slice(0, j) for i, j >= 0
RECURSIVE sliceFrom(_, _)
sliceFrom(t, i) ==
  IF i <= 0 \/ t = <<>> THEN t
  ELSE IF t[1].n <= i THEN sliceFrom(Tail(t), i - t[1].n)
  ELSE <<Run(t[1].c, t[1].n - i)>> \o Tail(t)

RECURSIVE sliceTo(_, _)
sliceTo(t, j) ==
  IF j <= 0 \/ t = <<>> THEN <<>>
  ELSE IF t[1].n <= j THEN <<t[1]>> \o sliceTo(Tail(t), j - t[1].n)
  ELSE <<Run(t[1].c, j)>>

slice(t, i, j) == sliceTo(sliceFrom(t, i), j - i)

\* text.slice(-k): slice(-0) is slice(0), the whole text
sliceLast(t, k) == IF k = 0 THEN t ELSE sliceFrom(t, Max(0, length(t) - k))

\* content[i]; "" stands for undefined
charAt(t, i) ==
  LET rest == sliceFrom(t, i)
  IN IF i < 0 \/ rest = <<>> THEN "" ELSE rest[1].c

\* The least member of a non-empty set of numbers
Least(S) == CHOOSE x \in S : \A y \in S : x <= y

\* String.prototype.indexOf
indexOf(t, pat) ==
  LET found == {i \in 0..(length(t) - length(pat)) :
                  slice(t, i, i + length(pat)) = pat}
  IN IF found = {} THEN -1 ELSE Least(found)

\* chunk.lastIndexOf(' ')
RECURSIVE lastIndexOfSpace(_)
lastIndexOfSpace(t) ==
  IF t = <<>> THEN -1
  ELSE IF t[Len(t)].c = "s" THEN length(t) - 1
  ELSE lastIndexOfSpace(SubSeq(t, 1, Len(t) - 1))

\* Array.prototype.join
RECURSIVE join(_, _)
join(pieces, sep) ==
  IF pieces = <<>> THEN <<>>
  ELSE IF Len(pieces) = 1 THEN pieces[1]
  ELSE concat(concat(pieces[1], sep), join(Tail(pieces), sep))

Blank == <<Run("s", 1)>>             \* ' '

ParagraphBreak == <<Run("n", 2)>>    \* '\n\n'

FullStop == <<Run("p", 1)>>          \* '.'

RECURSIVE newlines(_)
newlines(ws) ==
  IF ws = <<>> THEN 0
  ELSE (IF ws[1].c = "n" THEN ws[1].n ELSE 0) + newlines(Tail(ws))

\* text.split(/\n\s*\n/): the pieces, each trimmed (both callers trim them).
\* piece is the one being read, ws the white space read after it.
RECURSIVE splitOnBlankLines(_, _, _, _)
splitOnBlankLines(t, i, piece, ws) ==
  IF i > Len(t) THEN <<piece>>
  ELSE IF IsSpace(t[i].c)
  THEN splitOnBlankLines(t, i + 1, piece, ws \o <<t[i]>>)
  ELSE IF newlines(ws) >= 2
  THEN <<piece>> \o splitOnBlankLines(t, i + 1, <<t[i]>>, <<>>)
  ELSE splitOnBlankLines(t, i + 1, trimStart(piece \o ws) \o <<t[i]>>, <<>>)

\* text.split(/(?<=[.!?])\s+/).map(s => s.trim())
RECURSIVE splitAfterPunct(_, _, _, _)
splitAfterPunct(t, i, piece, ws) ==
  IF i > Len(t) THEN <<piece>>
  ELSE IF IsSpace(t[i].c)
  THEN splitAfterPunct(t, i + 1, piece, ws \o <<t[i]>>)
  ELSE IF ws # <<>> /\ piece # <<>> /\ IsPunct(piece[Len(piece)].c)
  THEN <<piece>> \o splitAfterPunct(t, i + 1, <<t[i]>>, <<>>)
  ELSE splitAfterPunct(t, i + 1, trimStart(piece \o ws) \o <<t[i]>>, <<>>)

\* text.split(/[.!?]+/).map(s => s.trim())
RECURSIVE splitOnPunct(_, _, _)
splitOnPunct(t, i, piece) ==
  IF i > Len(t) THEN <<trim(piece)>>
  ELSE IF IsPunct(t[i].c)
  THEN <<trim(piece)>> \o splitOnPunct(t, i + 1, <<>>)
  ELSE splitOnPunct(t, i + 1, piece \o <<t[i]>>)

LongerThan(pieces, n) ==
  LET Keep(x) == length(x) > n IN SelectSeq(pieces, Keep)

\* content.split(/\n\s*\n/).filter(p => p.trim().length > 0), trimmed
splitIntoParagraphs(t) == LongerThan(splitOnBlankLines(t, 1, <<>>, <<>>), 0)

\* SemanticChunker.splitIntoSentences, lines 560-584
splitIntoSentences(t) ==
  LET EnsureStop(x) ==
        IF IsPunct(x[Len(x)].c) THEN x ELSE concat(x, FullStop)
      kept == LongerThan(splitAfterPunct(t, 1, <<>>, <<>>), 10)
      sentences == [j \in 1..Len(kept) |-> EnsureStop(kept[j])]
      simpler == LongerThan(splitOnPunct(t, 1, <<>>), 5)
  IN IF Len(sentences) <= 1
     THEN [j \in 1..Len(simpler) |-> concat(simpler[j], FullStop)]
     ELSE sentences

\* SemanticChunker.countSentences, lines 586-588
countSentences(t) == Len(LongerThan(splitOnPunct(t, 1, <<>>), 0))

\* SemanticChunker.getOverlapText, lines 590-606: the candidates are the
\* suffixes of the sentence list, shortest first
RECURSIVE overlapCandidate(_, _, _)
overlapCandidate(sentences, i, overlapSize) ==
  IF i < 1 THEN <<>>
  ELSE LET candidate == join(SubSeq(sentences, i, Len(sentences)), Blank)
       IN IF length(candidate) <= overlapSize THEN candidate
          ELSE overlapCandidate(sentences, i - 1, overlapSize)

getOverlapText(t, overlapSize) ==
  IF length(t) <= overlapSize THEN t
  ELSE LET sentences == splitIntoSentences(t)
           overlap == overlapCandidate(sentences, Len(sentences), overlapSize)
       IN IF overlap # <<>> THEN overlap ELSE sliceLast(t, overlapSize)

\* SemanticChunk: content and metadata (parent_chunk and
\* semantic_similarity are left out, nothing reads them); chunk_index is
\* the position in the returned sequence
SemanticChunk(content, type, start, len, count) ==
  [content |-> content, chunk_type |-> type, start_index |-> start,
   end_index |-> start + len, length |-> len, sentence_count |-> count]

\* The loop that chunkByParagraphs (lines 54-99) and chunkBySentences
\* (lines 112-151) share: pieces are packed into currentChunk until the
\* next one would exceed maxChunkSize.
\* acc = [chunks, currentChunk, startIndex]
RECURSIVE packPieces(_, _, _, _, _, _, _, _)
packPieces(text, pieces, i, sep, type, maxChunkSize, overlap, acc) ==
  LET currentChunk == acc.currentChunk
      saved == SemanticChunk(trim(currentChunk), type, acc.startIndex,
                             length(currentChunk), countSentences(currentChunk))
  IN IF i > Len(pieces)
     THEN IF length(trim(currentChunk)) > 0
          THEN acc.chunks \o <<saved>> ELSE acc.chunks
     ELSE IF /\ length(currentChunk) + length(pieces[i]) > maxChunkSize
             /\ length(currentChunk) > 0
     THEN LET overlapText == getOverlapText(currentChunk, overlap)
              started == concat(concat(overlapText, sep), pieces[i])
          IN packPieces(text, pieces, i + 1, sep, type, maxChunkSize, overlap,
               [chunks |-> acc.chunks \o <<saved>>,
                currentChunk |-> started,
                startIndex |-> acc.startIndex + length(started)
                                 - length(overlapText)])
     ELSE IF length(currentChunk) > 0
     THEN packPieces(text, pieces, i + 1, sep, type, maxChunkSize, overlap,
            [acc EXCEPT !.currentChunk =
                          concat(concat(currentChunk, sep), pieces[i])])
     ELSE packPieces(text, pieces, i + 1, sep, type, maxChunkSize, overlap,
            [acc EXCEPT !.currentChunk = pieces[i],
                        !.startIndex = indexOf(text, pieces[i])])

NoneSaved == [chunks |-> <<>>, currentChunk |-> <<>>, startIndex |-> 0]

\* SemanticChunker.chunkByParagraphs, lines 47-102
chunkByParagraphs(text, maxChunkSize, overlap) ==
  packPieces(text, splitIntoParagraphs(text), 1, ParagraphBreak, "paragraph",
             maxChunkSize, overlap, NoneSaved)

\* SemanticChunker.chunkBySentences, lines 105-154
chunkBySentences(text, maxChunkSize, overlap) ==
  packPieces(text, splitIntoSentences(text), 1, Blank, "sentence",
             maxChunkSize, overlap, NoneSaved)

(***************************************************************************)
(* chunkRecursively: one call of recursiveChunk either pushes a chunk or   *)
(* calls itself on parts of its content.  The calls a body makes are       *)
(* computed here, in the order the body makes them.                        *)
(***************************************************************************)
maxDepth == 10          \* if (depth > 10)

smallContent == 50      \* if (content.length < 50)

Call(content, parentIndex) == [content |-> content, parentIndex |-> parentIndex]

\* The member of a singleton.  A variable bound over a singleton holds the
\* value of its member, so what depends on it computes that member once.
Only(S) == CHOOSE x \in S : TRUE

\* The loops of the paragraph branch (lines 223-251) and of the sentence
\* branch (lines 258-280): acc = [calls, currentChunk, chunkStart]
RECURSIVE splitCalls(_, _, _, _, _, _)
splitCalls(pieces, i, sep, maxChunkSize, overlap, acc) ==
  LET currentChunk == acc.currentChunk
      made == Call(trim(currentChunk), acc.chunkStart)
  IN IF i > Len(pieces)
     THEN IF length(trim(currentChunk)) > 0
          THEN acc.calls \o <<made>> ELSE acc.calls
     ELSE IF /\ length(currentChunk) + length(pieces[i]) + length(sep)
                  > maxChunkSize
             /\ length(currentChunk) > 0
     THEN LET overlapText == getOverlapText(currentChunk, overlap)
              started == concat(concat(overlapText,
                                  IF overlapText # <<>> THEN sep ELSE <<>>),
                                pieces[i])
          IN Only({splitCalls(pieces, i + 1, sep, maxChunkSize, overlap, next) :
                     next \in {[calls |-> acc.calls \o <<made>>,
                                currentChunk |-> started,
                                chunkStart |-> acc.chunkStart
                                  + (length(started) - length(overlapText)
                                       - length(pieces[i]))]}})
     ELSE Only({splitCalls(pieces, i + 1, sep, maxChunkSize, overlap, next) :
                  next \in {[acc EXCEPT !.currentChunk =
                               IF length(currentChunk) > 0
                               THEN concat(concat(currentChunk, sep), pieces[i])
                               ELSE pieces[i]]}})

\* lines 287-297: the first blank or newline within 20% of the midpoint,
\* the midpoint if there is none
splitPointOf(content) ==
  LET midpoint == length(content) \div 2
      searchRange == (length(content) * 2) \div 10
      boundaries ==
        {i \in Max(0, midpoint - searchRange)
                ..Min(length(content), midpoint + searchRange) :
           IsSpace(charAt(content, i))}
  IN IF boundaries = {} THEN midpoint ELSE Least(boundaries)

\* if (depth > 10): the content is pushed as one chunk whatever its size
depthExceededLate(depth) == depth > maxDepth + 2

depthExceeded(depth) == depth > maxDepth

\* The body of recursiveChunk, lines 160-322, for one call: the chunks it
\* pushes itself and the calls it makes at depth + 1
recursiveChunkBody(content, parentIndex, depth, maxChunkSize, overlap) ==
  LET Leaf(type, count) ==
        [chunks |-> IF length(trim(content)) > 0
                    THEN <<SemanticChunk(trim(content), type, parentIndex,
                                         length(content), count)>>
                    ELSE <<>>,
         calls |-> <<>>]
      paragraphs == splitIntoParagraphs(content)
      sentences == splitIntoSentences(content)
      splitPoint == splitPointOf(content)
      beforeSplit == trim(sliceTo(content, splitPoint))
      afterSplit == trim(sliceFrom(content, splitPoint))
      start == [calls |-> <<>>, currentChunk |-> <<>>,
                chunkStart |-> parentIndex]
  IN IF depthExceeded(depth)
     THEN Leaf("recursive_max_depth", countSentences(content))
     ELSE IF length(content) <= maxChunkSize
     THEN Leaf("recursive", countSentences(content))
     ELSE IF length(content) < smallContent
     THEN Leaf("recursive_small", 1)
     ELSE IF Len(paragraphs) > 1
     THEN [chunks |-> <<>>,
           calls |-> Only({splitCalls(pieces, 1, ParagraphBreak, maxChunkSize,
                                      overlap, start) :
                             pieces \in {paragraphs}})]
     ELSE IF Len(sentences) > 1
     THEN [chunks |-> <<>>,
           calls |-> Only({splitCalls(pieces, 1, Blank, maxChunkSize, overlap,
                                      start) :
                             pieces \in {sentences}})]
     ELSE IF length(beforeSplit) > 0 /\ length(afterSplit) > 0
     THEN [chunks |-> <<>>,
           calls |-> <<Call(beforeSplit, parentIndex),
                       Call(afterSplit, parentIndex + splitPoint)>>]
     ELSE Leaf("recursive_forced", countSentences(content))

(***************************************************************************)
(* SpecSegment: one call of chunkTextSemantically on a drawn text.         *)
(***************************************************************************)
Letters == <<"a", "b", "c", "d", "e", "f">>

\* Letters of a sentence before its full stop: a fragment, a sentence
\* that fits the overlap, one that does not, one larger than 1.5 chunks
SentenceSizes == {3, 40, 70, 160}

Sentence(k, n) == <<Run(Letters[k], n), Run("p", 1)>>

Separators == {Blank, ParagraphBreak}

RECURSIVE TextsOf(_)
TextsOf(k) ==
  IF k = 1 THEN {Sentence(1, n) : n \in SentenceSizes}
  ELSE {t \o sep \o Sentence(k, n) :
          t \in TextsOf(k - 1), sep \in Separators, n \in SentenceSizes}

\* no punctuation, whitespace or paragraph break
PlainText == <<Run("a", 250)>>

BlankText == <<Run("s", 2)>>

Texts == UNION {TextsOf(k) : k \in 1..MaxSentences} \cup {PlainText, BlankText}

\* chunk_size: z.number().min(100).max(2000); the smallest one is drawn
ChunkSizes == {100}

\* chunk_overlap: z.number().min(0).max(500)
Overlaps == {0, 50}

Strategies == {"paragraph", "sentence", "recursive", "semantic"}

InitSegment ==
  /\ InitIngest
  /\ envOK
  /\ ranked = <<>>
  /\ call = NoCall
  /\ results = <<>>
  /\ chat = NoChat
  /\ awaiting = NoAwait
  /\ segment \in [text : Texts, maxChunkSize : ChunkSizes,
                  overlap : Overlaps, strategy : Strategies]
  /\ segpc = "ready"
  /\ stack = <<>>
  /\ semantic = NoSemantic
  /\ segmented = <<>>

\* chunkTextSemantically, lines 26-44, for the strategies paragraph and
\* sentence, which return at once
chunkTextSemantically ==
  /\ segpc = "ready"
  /\ segment.strategy \in {"paragraph", "sentence"}
  /\ segmented' =
       IF segment.strategy = "paragraph"
       THEN chunkByParagraphs(segment.text, segment.maxChunkSize,
                              segment.overlap)
       ELSE chunkBySentences(segment.text, segment.maxChunkSize,
                             segment.overlap)
  /\ segpc' = "done"
  /\ UNCHANGED <<segment, stack, semantic>>
  /\ UNCHANGED <<ingestVars, retrieveVars>>

\* chunkRecursively, lines 157-159 and 324: the strategy recursive makes
\* the first call recursiveChunk(text, 0, 0)
chunkRecursively ==
  /\ segpc = "ready"
  /\ segment.strategy = "recursive"
  /\ stack' = <<[content |-> segment.text, parentIndex |-> 0, depth |-> 0]>>
  /\ segpc' = "recursive"
  /\ UNCHANGED <<segment, semantic, segmented>>
  /\ UNCHANGED <<ingestVars, retrieveVars>>

NonEmpty(chunkSeq) ==
  LET Keep(ch) == length(trim(ch.content)) > 0 IN SelectSeq(chunkSeq, Keep)

\* One call of recursiveChunk (lines 160-322): the call on top of the stack
\* runs its body; the calls it makes replace it, first one on top.  When
\* no call is left chunkRecursively returns the chunks (line 325).
recursiveChunk ==
  /\ segpc = "recursive"
  /\ stack # <<>>
  /\ LET top == Head(stack)
         body == recursiveChunkBody(top.content, top.parentIndex, top.depth,
                                    segment.maxChunkSize, segment.overlap)
         made == [j \in 1..Len(body.calls) |->
                    [content |-> body.calls[j].content,
                     parentIndex |-> body.calls[j].parentIndex,
                     depth |-> top.depth + 1]]
     IN /\ stack' = made \o Tail(stack)
        /\ IF stack' = <<>>
           THEN /\ segmented' = NonEmpty(segmented \o body.chunks)
                /\ segpc' = "done"
           ELSE /\ segmented' = segmented \o body.chunks
                /\ UNCHANGED segpc
  /\ UNCHANGED <<segment, semantic>>
  /\ UNCHANGED <<ingestVars, retrieveVars>>

(***************************************************************************)
(* chunkBySemantic.  The embedding service is the environment: it fails    *)
(* some batches and decides how similar consecutive sentences are.         *)
(* Similarities are kept in hundredths and compared exactly.               *)
(***************************************************************************)
sentenceLimit == 50        \* sentences.slice(0, 50)

embeddingBatchSize == 5    \* const batchSize = 5

minThreshold == 30         \* Math.max(0.3, ...), in hundredths

SimilarityValues == {20, 50, 90}

SimilaritySeqs ==
  UNION {[1..m -> SimilarityValues] : m \in 0..(MaxSentences - 1)}

BatchIds == 0..((MaxSentences - 1) \div embeddingBatchSize)

\* Sentences of batch b the service is asked to embed (line 370)
embeddable(limited, b) ==
  LET first == b * embeddingBatchSize + 1
      last == Min(Len(limited), (b + 1) * embeddingBatchSize)
  IN Cardinality({j \in first..last : length(trim(limited[j])) > 10})

\* embeddings.length after the loop of lines 369-387
RECURSIVE embeddingCount(_, _, _)
embeddingCount(limited, failed, b) ==
  IF b * embeddingBatchSize >= Len(limited) THEN 0
  ELSE (IF b \in failed THEN 0 ELSE embeddable(limited, b))
         + embeddingCount(limited, failed, b + 1)

RECURSIVE sumOf(_)
sumOf(numbers) ==
  IF numbers = <<>> THEN 0 ELSE numbers[1] + sumOf(Tail(numbers))

\* similarities[i] < Math.max(0.3, mean - stdDev * 0.5), lines 407-415:
\* with n values of sum S and sum of squares Q, x < mean - stdDev / 2
\* iff S - n x > 0 and 4 (S - n x)^2 > n Q - S^2
belowThreshold(similarities, x) ==
  LET n == Len(similarities)
      S == sumOf(similarities)
      Q == sumOf([j \in 1..n |-> similarities[j] * similarities[j]])
      d == S - n * x
  IN x < minThreshold \/ (d > 0 /\ 4 * d * d > n * Q - S * S)

\* lines 413-418; i is the index of the code
RECURSIVE breakpointsFrom(_, _, _)
breakpointsFrom(similarities, i, found) ==
  IF i >= Len(similarities) THEN found
  ELSE IF /\ belowThreshold(similarities, similarities[i + 1])
          /\ found[Len(found)] # i + 1
  THEN breakpointsFrom(similarities, i + 1, Append(found, i + 1))
  ELSE breakpointsFrom(similarities, i + 1, found)

limitedSentences(sentences) ==
  SubSeq(sentences, 1, Min(Len(sentences), sentenceLimit))

\* chunkBySemantic, lines 329-427, up to the loop over the breakpoints
chunkBySemantic(failed, similarities) ==
  /\ segpc = "ready"
  /\ segment.strategy = "semantic"
  /\ LET text == segment.text
         sentences == splitIntoSentences(text)
         limited == limitedSentences(sentences)
         embeddings == embeddingCount(limited, failed, 0)
         breakpoints ==
           Append(breakpointsFrom(similarities, 0, <<0>>),
                  Min(Len(limited), Len(sentences)))
         paragraphs == chunkByParagraphs(text, segment.maxChunkSize,
                                         segment.overlap)
     IN /\ Len(similarities) = Max(0, embeddings - 1)
        /\ IF length(text) <= segment.maxChunkSize
           THEN /\ segmented' = <<SemanticChunk(trim(text), "semantic", 0,
                                    length(text), countSentences(text))>>
                /\ segpc' = "done"
                /\ UNCHANGED semantic
           ELSE IF \/ Len(sentences) <= 2
                   \/ \E j \in 1..Len(sentences) :
                        length(trim(sentences[j])) = 0
                   \/ embeddings < 2
                   \/ Len(similarities) = 0
                   \/ Len(breakpoints) <= 2
           THEN /\ segmented' = paragraphs
                /\ segpc' = "done"
                /\ UNCHANGED semantic
           ELSE /\ semantic' = [breakpoints |-> breakpoints, i |-> 0,
                                split |-> NoSplit]
                /\ segpc' = "semantic"
                /\ UNCHANGED segmented
  /\ UNCHANGED <<segment, stack>>
  /\ UNCHANGED <<ingestVars, retrieveVars>>

\* One round of the loop of lines 433-477, and what follows the loop
\* (lines 480-486) once it is over
chunkBySemanticGroup ==
  /\ segpc = "semantic"
  /\ LET text == segment.text
         sentences == splitIntoSentences(text)
         i == semantic.i
         start == semantic.breakpoints[i + 1]
         end == semantic.breakpoints[i + 2]
         chunkSentences == SubSeq(sentences, start + 1, end)
         content == trim(join(chunkSentences, Blank))
     IN IF i >= Len(semantic.breakpoints) - 1
        THEN /\ segmented' =
                  IF Len(segmented) = 0
                  THEN chunkByParagraphs(text, segment.maxChunkSize,
                                         segment.overlap)
                  ELSE segmented
             /\ segpc' = "done"
             /\ UNCHANGED semantic
        ELSE IF length(content) = 0
        THEN /\ semantic' = [semantic EXCEPT !.i = i + 1]
             /\ UNCHANGED <<segmented, segpc>>
        ELSE IF 2 * length(content) > 3 * segment.maxChunkSize
        THEN /\ semantic' = [semantic EXCEPT !.split =
                  [content |-> content, start |-> 0, parts |-> <<>>]]
             /\ segpc' = "split"
             /\ UNCHANGED segmented
        ELSE /\ segmented' = Append(segmented,
                  SemanticChunk(content, "semantic",
                                indexOf(text, chunkSentences[1]),
                                length(content), Len(chunkSentences)))
             /\ semantic' = [semantic EXCEPT !.i = i + 1]
             /\ UNCHANGED segpc
  /\ UNCHANGED <<segment, stack>>
  /\ UNCHANGED <<ingestVars, retrieveVars>>

\* One round of the while loop of simpleCharacterSplit (lines 500-514) on
\* an oversized group; when the loop ends, lines 448-461 push one chunk
\* per part.  The run is cut after MaxParts parts.
simpleCharacterSplit ==
  /\ segpc = "split"
  /\ Len(semantic.split.parts) < MaxParts
  /\ LET text == semantic.split.content
         start == semantic.split.start
         maxSize == segment.maxChunkSize
         end == Min(start + maxSize, length(text))
         whole == slice(text, start, end)
         lastSpace == lastIndexOfSpace(whole)
         chunk == IF end < length(text) /\ 5 * lastSpace > 4 * maxSize
                  THEN slice(text, start, start + lastSpace)
                  ELSE whole
         parts == Append(semantic.split.parts, chunk)
         PartChunk(part) ==
           SemanticChunk(trim(part), "semantic",
                         indexOf(segment.text, trim(part)), length(part),
                         countSentences(part))
     IN IF end - segment.overlap < length(text)
        THEN /\ semantic' = [semantic EXCEPT !.split =
                  [content |-> text, start |-> end - segment.overlap,
                   parts |-> parts]]
             /\ UNCHANGED <<segmented, segpc>>
        ELSE /\ segmented' =
                  segmented \o [j \in 1..Len(parts) |-> PartChunk(parts[j])]
             /\ semantic' = [semantic EXCEPT !.i = @ + 1, !.split = NoSplit]
             /\ segpc' = "semantic"
  /\ UNCHANGED <<segment, stack>>
  /\ UNCHANGED <<ingestVars, retrieveVars>>

NextSegment ==
  \/ chunkTextSemantically
  \/ chunkRecursively
  \/ recursiveChunk
  \/ \E failed \in SUBSET BatchIds :
       \E similarities \in SimilaritySeqs :
         chunkBySemantic(failed, similarities)
  \/ chunkBySemanticGroup
  \/ simpleCharacterSplit

SpecSegment == InitSegment /\ [][NextSegment]_vars

\* A call of recursiveChunk is pending; it changes the stack when it runs,
\* so this is ENABLED <<recursiveChunk>>_vars
recursiveChunkPending == segpc = "recursive" /\ stack # <<>>

\* chunkRecursively is synchronous code: once called, every call of
\* recursiveChunk it has made runs.  The second condition is
\* WF_vars(recursiveChunk) written out
FairSegment ==
  /\ SpecSegment
  /\ WF_vars(chunkRecursively)
  /\ ([]<>~recursiveChunkPending \/ []<><<recursiveChunk>>_vars)

(***************************************************************************)
(* Properties                                                              *)
(***************************************************************************)
StatusOf(s) == IF sources[s].present THEN sources[s].status ELSE "none"

Handled == pc = "idle" /\ signal.job # NoMsg

\* C1: a job whose ingestion fails on every delivery is redelivered at most
\* 3 times, with retry counts 1, 2, 3: no source is delivered more than 4
\* times, a waiting message carries as retry count the number of deliveries
\* made so far, at most 3; and once the 4th failed delivery has been
\* handled the message is acknowledged, not sent again, and the source (if
\* its row exists) has status failed.
C1_JobLevelCap ==
  /\ \A s \in SourceIds : deliveries[s] <= jobRetryCap + 1
  /\ \A m \in queue :
       m.retryCount <= jobRetryCap /\ m.retryCount = deliveries[m.sourceId]
  /\ (Handled /\ ~signal.ok /\ signal.job.retryCount = jobRetryCap) =>
       /\ signal.ack = 1 /\ signal.retry = 0
       /\ deliveries[signal.job.sourceId] = jobRetryCap + 1
       /\ \A m \in queue : m.sourceId # signal.job.sourceId
       /\ sources[signal.job.sourceId].present =>
            sources[signal.job.sourceId].status = "failed"

C1_Witness ==
  /\ Handled /\ ~signal.ok /\ signal.ack = 1
  /\ signal.job.retryCount = jobRetryCap
  /\ deliveries[signal.job.sourceId] = jobRetryCap + 1
  /\ StatusOf(signal.job.sourceId) = "failed"

\* C2: for every job the consumer has handled exactly one of ack and retry
\* was signalled; ack if and only if the ingest returned success or the
\* incremented retry count exceeds 3; a retry carries the same job with the
\* retry count incremented by exactly 1.
C2_AckXorRetry ==
  Handled =>
    /\ signal.ack + signal.retry = 1
    /\ signal.ok = result.success
    /\ (signal.ack = 1) <=>
         (result.success \/ signal.job.retryCount + 1 > jobRetryCap)
    /\ (signal.retry = 1) =>
         /\ signal.sent = [signal.job EXCEPT !.retryCount = @ + 1]
         /\ signal.sent \in queue
    /\ (signal.ack = 1) => \A m \in queue : m.sourceId # signal.job.sourceId

C2_Witness ==
  /\ Handled /\ signal.retry = 1 /\ signal.ack = 0
  /\ signal.job.retryCount = 1 /\ signal.sent.retryCount = 2
  /\ result.error = "StorageFailed"

\* C3: the status of a knowledge source changes only along pending ->
\* processing, processing -> completed and processing -> failed (so it never
\* leaves completed or failed), and while the stage is retrying the status
\* is processing.
AllowedStatusSteps ==
  {<<"pending", "processing">>, <<"processing", "completed">>,
   <<"processing", "failed">>}

C3_StatusMachine ==
  [][\A s \in SourceIds :
       /\ (sources[s].present /\ sources'[s].present
           /\ sources[s].status # sources'[s].status) =>
            <<sources[s].status, sources'[s].status>> \in AllowedStatusSteps
       /\ (sources'[s].present
           /\ sources'[s].processing_stage = "retrying") =>
            sources'[s].status = "processing"]_vars

\* C4: after an attempt has failed with a structural error (EmptyContent,
\* text under 10 characters, ChunkingFailed) the retry loop does not run the
\* ingest again in that delivery: the handler only goes on to rethrow.
C4_StructuralNotRetried ==
  (lastError \in StructuralErrors) => pc \in {"caught", "thrown", "idle"}

\* C5: once the row of a source has been deleted, the index holds no chunk
\* whose knowledge_source_id is that source, whichever agent owns it.
C5_DeleteCascades ==
  \A s \in SourceIds :
    sources[s].deleted =>
      \A k \in ChunkKeys : k.knowledge_source_id = s => index[k] = 0

\* C6: whatever the query, a chat turn of an agent gets no chunk of a source
\* whose status is not completed at the time of the query.
C6_OnlyCompletedSources ==
  \A a \in AgentIds, queryScore \in Scores :
    LET r == retrieveContext(a, queryScore) IN
      \A j \in 1..Len(r) : StatusOf(r[j].knowledge_source_id) = "completed"

\* C7: under every strategy each result of findRelevantChunks has a score
\* greater than or equal to the threshold the caller passed.
C7_ScoreAtLeastThreshold ==
  (call # NoCall) =>
    \A j \in 1..Len(results) : results[j].similarity >= call.threshold

\* C8: under every strategy findRelevantChunks returns at most maxChunks
\* results, however many documents of the agent the index holds.
C8_AtMostMaxChunks ==
  (call # NoCall) => Len(results) <= call.maxChunks

AgentDocs(agentId) == {j \in 1..Len(ranked) : ranked[j].agent_id = agentId}

C8_Witness ==
  /\ call # NoCall
  /\ call.searchStrategy = "contextual"
  /\ Cardinality(AgentDocs(call.agentId)) > call.maxChunks
  /\ Len(results) = call.maxChunks

\* C9: when processKnowledgeSource returns from the store loop, it reports
\* success if and only if at least one chunk of the attempt was stored in
\* the index, with chunks_count the number of chunks stored, and
\* StorageFailed when none was.
IngestReturned ==
  /\ pc \in {"finalize", "failed"}
  /\ result.error \in {"none", "PartialSuccess", "StorageFailed"}

StoredChunks == {i \in ChunkIdx : i < cur.nchunks /\ chunks[i].landed}

C9_SuccessIffStored ==
  IngestReturned =>
    /\ result.success <=> (StoredChunks # {})
    /\ result.success => result.chunks_count = Cardinality(StoredChunks)
    /\ (StoredChunks = {}) => result.error = "StorageFailed"

\* C10: if the store of one chunk fails on its first two tries and succeeds
\* on the third while every other chunk is stored at its first try, the
\* ingest reports success with chunks_count the number of chunks.
ThirdTryStored(c) == c.try = addDocumentMaxRetries /\ c.res = "ok"

StoredNormally(c) == c.st = "ok" /\ c.try = 1

C10_RetryAbsorbed ==
  (/\ IngestReturned
   /\ \E i \in ChunkIdx :
        /\ i < cur.nchunks
        /\ ThirdTryStored(chunks[i])
        /\ \A j \in ChunkIdx \ {i} :
             j < cur.nchunks => StoredNormally(chunks[j]))
  => (result.success /\ result.chunks_count = cur.nchunks)

\* C11: a source of any declared type whose extracted text is empty or blank
\* fails with EmptyContent: once a delivery of its job has been handled (the
\* secrets being configured and extraction having returned), the ingest has
\* reported an empty-content error, the index holds no chunk of the source,
\* and the row (if it exists) has status failed and progress_percentage 0.
EmptyTexts == {"empty", "blank"}

EmptyContentErrors == {"EmptyContent", "ContentRequired"}

C11_EmptyContentFails ==
  (/\ Handled /\ envOK
   /\ signal.job.text \in EmptyTexts
   /\ result.error # "ExtractionFailed")
  => LET s == signal.job.sourceId IN
       /\ ~result.success
       /\ result.error \in EmptyContentErrors
       /\ \A k \in ChunkKeys : k.knowledge_source_id = s => index[k] = 0
       /\ sources[s].present =>
            /\ sources[s].status = "failed"
            /\ sources[s].progress_percentage = 0

\* C12: whenever a job has been acknowledged because the job-level cap is
\* exhausted, the row of its source (if it exists) has status failed,
\* progress_percentage 0, processing_stage failed and the error in metadata.
C12_TerminalFailureRecorded ==
  (Handled /\ ~signal.ok /\ signal.ack = 1) =>
    LET row == sources[signal.job.sourceId] IN
      row.present =>
        /\ row.status = "failed"
        /\ row.progress_percentage = 0
        /\ row.processing_stage = "failed"
        /\ row.metadata = "error_stack"

\* C13: when an ingestion ends, the index holds at most one chunk per
\* (source, chunk position): chunks stored earlier for the source (by a
\* previous attempt, a previous try of the same chunk, or a previous
\* delivery) have been deleted before the new ones were stored.
C13_OneChunkPerPosition ==
  (pc \in {"finalize", "failed"}) => \A k \in ChunkKeys : index[k] <= 1

\* C14: if the embedding call or the index query fails during a chat turn of
\* an agent with RAG enabled, the language model is still called, with the
\* user's message and no context block, and the turn is answered with an
\* error only if the language model itself fails.
C14_RetrievalFailureDegrades ==
  (chat # NoChat /\ chat.enable_rag /\ ~chat.indexOK) =>
    /\ chat.llmCalled
    /\ chat.contextMessage = NoContext
    /\ chat.llmOK => chat.status = 200

C14_Witness ==
  /\ chat # NoChat /\ chat.enable_rag /\ ~chat.indexOK /\ chat.llmOK
  /\ chat.status = 200 /\ chat.contextMessage = NoContext
  /\ \E j \in 1..Len(ranked) :
       ranked[j].agent_id = chat.agentId /\ ranked[j].score >= defaultThreshold

\* C15: findRelevantChunks distinguishes failure from absence of matches: when
\* the embedding call or the index fails, what the caller gets is not the
\* empty sequence that zero matches yield.
C15_FailureDistinguished ==
  (call # NoCall /\ ~call.indexOK) => results # <<>>

\* C16: under the contextual strategy the content of the result for a hit at
\* position i is made of exactly the stored chunks of the hit's source whose
\* position lies in [max(0, i - w), i + w], in ascending order of position,
\* where w is the context_window the agent has configured; a block of more
\* than one chunk is marked context-expanded.
WindowBlock(docs, agentId, s, i, w) ==
  LET InWindow(d) ==
        /\ d.agent_id = agentId
        /\ d.knowledge_source_id = s
        /\ d.chunk_index >= Max(0, i - w)
        /\ d.chunk_index <= i + w
      sorted == SortAsc(SelectSeq(docs, InWindow))
  IN [j \in 1..Len(sorted) |-> sorted[j].chunk_index]

C16_ContextWindow ==
  (call # NoCall /\ call.searchStrategy = "contextual" /\ call.indexOK) =>
    \A j \in 1..Len(results) :
      LET block == WindowBlock(ranked, call.agentId,
                               results[j].knowledge_source_id,
                               results[j].chunk_index, call.contextWindow)
      IN /\ results[j].content = block
         /\ Len(block) > 1 => results[j].has_context

\* C17: a chat turn of an agent whose search_strategy is cosine runs the
\* Similarity strategy: its results are those of one agent-scoped query
\* filtered at the agent's threshold and ranked by the raw similarity score.
C17_CosineIsSimilarity ==
  (/\ chat # NoChat /\ chat.enable_rag /\ chat.indexOK
   /\ chat.search_strategy = "cosine")
  => results = searchSimilar(ranked, call.agentId, call.maxChunks,
                             call.threshold)

\* C18: recursive segmentation terminates on every input, and no call of
\* recursiveChunk is deeper than one level past the cap of 10; a call at
\* that level makes no further call and pushes its content as a single
\* chunk tagged recursive_max_depth.
ForceEmitted ==
  /\ stack' = Tail(stack)
  /\ \/ Head(stack).content = <<>>
     \/ /\ segmented' # <<>>
        /\ segmented'[Len(segmented')].chunk_type = "recursive_max_depth"
        /\ segmented'[Len(segmented')].content = trim(Head(stack).content)

C18_RecursiveTerminates ==
  /\ [](\A j \in 1..Len(stack) : stack[j].depth <= maxDepth + 1)
  /\ [][(stack # <<>> /\ Head(stack).depth > maxDepth) => ForceEmitted]_vars
  /\ (segment.strategy = "recursive" ~> segpc = "done")

C18_Witness ==
  /\ segment.strategy = "recursive"
  /\ segpc = "done"
  /\ \E j \in 1..Len(segmented) :
       segmented[j].chunk_type = "recursive_max_depth"

\* C19: whatever the strategy, the chunks chunkTextSemantically returns
\* cover the input: every sentence of the text is in the chunks.  A
\* sentence counts as covered as soon as the chunks together hold as many
\* of its letters as it has, so one that is cut across chunks is covered.
RECURSIVE lettersIn(_, _)
lettersIn(t, c) ==
  IF t = <<>> THEN 0
  ELSE (IF t[1].c = c THEN t[1].n ELSE 0) + lettersIn(Tail(t), c)

RECURSIVE lettersReturned(_, _)
lettersReturned(chunkSeq, c) ==
  IF chunkSeq = <<>> THEN 0
  ELSE lettersIn(chunkSeq[1].content, c) + lettersReturned(Tail(chunkSeq), c)

Covered(c) == lettersReturned(segmented, c) >= lettersIn(segment.text, c)

SentenceLetters ==
  {segment.text[j].c : j \in 1..Len(segment.text)} \ {"s", "n", "p"}

C19_ChunksCoverInput == segpc = "done" => \A c \in SentenceLetters : Covered(c)

\* C20: on a text of fewer than 3 sentences the strategy semantic returns
\* exactly the chunks the strategy paragraph returns for the same text,
\* size and overlap: same contents, same spans, same chunk types.
C20_FewSentencesAsParagraph ==
  (/\ segpc = "done"
   /\ segment.strategy = "semantic"
   /\ Len(splitIntoSentences(segment.text)) < 3)
  => segmented = chunkByParagraphs(segment.text, segment.maxChunkSize,
                                   segment.overlap)

\* getSourceStatus: what GET /api/knowledge-sources/:sourceId/status returns
\* for a row: the lifecycle fields and the parsed metadata, unfiltered.
getSourceStatus(row) ==
  [status |-> row.status,
   progress_percentage |-> row.progress_percentage,
   processing_stage |-> row.processing_stage,
   metadata |-> row.metadata]

\* C21: what getSourceStatus exposes for a failed source never contains a
\* stack trace: its metadata is not the error-and-stack object.
C21_NoStackExposed ==
  \A s \in 1..NumSources :
    (sources[s].present /\ sources[s].status = "failed")
    => getSourceStatus(sources[s]).metadata # "error_stack"

\* C28: simpleCharacterSplit terminates on every text, chunk_size and
\* chunk_overlap: every pass of its loop that does not return moves start
\* forward, so the text bounds the number of passes and of parts.  The loop's
\* whole state is start (text, maxSize and overlap do not change), so a pass
\* that leaves start where it was repeats for ever.
C28_SplitTerminates ==
  [][(segpc = "split" /\ segpc' = "split")
     => semantic'.split.start > semantic.split.start]_vars

\* C22: every job accepted into the queue is eventually acked with its source
\* completed or failed, provided the queue keeps delivering: whatever the
\* extraction, the embedding service and the index do, the handler gets back
\* to idle with no message of the source left.
Accepted(s) == \E m \in queue : m.sourceId = s

Acked(s) ==
  /\ pc = "idle"
  /\ \A m \in queue : m.sourceId # s
  /\ sources[s].deleted \/ sources[s].status \in {"completed", "failed"}

C22_EveryJobAcked == \A s \in 1..NumSources : Accepted(s) ~> Acked(s)

\* C23: every embedding call and index query that a retrieval issues is
\* capped by a timeout, so the retrieval returns: a call of
\* findRelevantChunks that waits for a service eventually has returned.
C23_RetrieveReturns ==
  (awaiting.on \in {"embedding", "query", "context"}) ~> (awaiting = Returned)

\* C24: agent isolation.  What a retrieval returns for agent A is made of
\* chunks of A only, the neighbours of a contextual expansion included, and
\* does not depend on the chunks of other agents: every result is a chunk of
\* A, and the results are those the same call returns on the index with every
\* chunk of the other agents removed.
OnlyAgent(docs, agentId) ==
  LET Own(d) == d.agent_id = agentId IN SelectSeq(docs, Own)

C24_AgentIsolation ==
  call # NoCall =>
    /\ \A j \in 1..Len(results) : results[j].agent_id = call.agentId
    /\ results = findRelevantChunks(OnlyAgent(ranked, call.agentId),
                                    call.agentId, call.maxChunks,
                                    call.threshold, call.searchStrategy,
                                    call.indexOK)

\* a retrieval answered with chunks while a chunk of another agent ranks
\* first in the index and scores above the threshold
C24_Witness ==
  /\ call # NoCall
  /\ results # <<>>
  /\ Len(ranked) > 1
  /\ ranked[1].agent_id # call.agentId
  /\ ranked[1].score >= call.threshold

\* C25: within one delivery the ingest is attempted at most 3 times.  After
\* a failed attempt k < 3 the stage becomes retrying and the loop waits
\* min(1000 * 2^(k-1), 30000) ms before attempt k + 1; after the third
\* failed attempt it does not wait and raises the last error.
C25_AttemptBackoff ==
  [][/\ attempt' <= 3
     /\ (pc = "caught" /\ pc' # "caught") =>
          IF attempt < 3
          THEN /\ pc' = "attempt"
               /\ attempt' = attempt + 1
               /\ waited' = waited + Min(1000 * 2 ^ (attempt - 1), 30000)
               /\ sources[cur.sourceId].present =>
                    sources'[cur.sourceId].processing_stage = "retrying"
          ELSE /\ pc' = "thrown"
               /\ waited' = waited
               /\ lastError' = lastError]_vars

\* the third attempt of a delivery has failed and its error is raised, after
\* waits of 1000 and 2000 ms
C25_Witness ==
  pc = "thrown" /\ attempt = 3 /\ waited = 3000 /\ lastError # "none"

\* C26: the store of a chunk is tried at most 3 times; after a failed try
\* k < 3 it waits min(1000 * 2^(k-1), 5000) ms before try k + 1; the chunk is
\* reported as failed only after its third try has failed.
C26_ChunkTries ==
  [][\A i \in ChunkIdx :
       /\ chunks'[i].try <= 3
       /\ (chunks[i].try >= 1 /\ chunks'[i].try = chunks[i].try + 1) =>
            chunks'[i].waited =
              chunks[i].waited + Min(1000 * 2 ^ (chunks[i].try - 1), 5000)
       /\ (chunks[i].st = "run" /\ chunks'[i].st = "fail") =>
            (chunks'[i].try = 3 /\ chunks'[i].res # "ok")]_vars

\* C27: at most 5 chunk store operations, retries included, are in flight at
\* any time, and no store of a batch starts before every store of the batch
\* before it has finished.  A store is in flight from the moment the loop
\* has reached its batch until its addDocument call has returned or thrown,
\* whether or not the loop still waits for it.
StoreInFlight(i) ==
  /\ chunks[i].st # "none"
  /\ InCurrentBatch(i)
  /\ chunks[i].st = "run" \/ Abandoned(chunks[i])

C27_BatchesBounded ==
  /\ Cardinality({i \in DOMAIN chunks : StoreInFlight(i)}) <= 5
  /\ \A i, j \in DOMAIN chunks :
       (i \div 5 < j \div 5 /\ StoreInFlight(j)) => ~StoreInFlight(i)

\* C29: the lifecycle fields of a source agree.  Status failed goes with
\* stage failed and progress 0, status completed with stage completed and
\* progress 100, and a stage failed or completed with the status of the same
\* name.
C29_LifecycleAgrees ==
  \A s \in 1..NumSources :
    sources[s].present =>
      /\ sources[s].status = "failed" =>
           (sources[s].processing_stage = "failed"
            /\ sources[s].progress_percentage = 0)
      /\ sources[s].status = "completed" =>
           (sources[s].processing_stage = "completed"
            /\ sources[s].progress_percentage = 100)
      /\ sources[s].processing_stage \in {"failed", "completed"} =>
           sources[s].status = sources[s].processing_stage

\* C30: when the store loop of an ingest returns, chunks_count is the number
\* of chunks of that attempt present in the index, and a chunk that has been
\* counted as failed, also by the 30 s storage timeout, is not written to the
\* index afterwards.
CountedFailed(i) == chunks[i].st = "fail"

C30_CountMatchesIndex ==
  [][/\ (pc = "store" /\ pc' \in {"finalize", "failed"}) =>
          result'.chunks_count = Cardinality(StoredChunks)
     /\ \A i \in ChunkIdx :
          (CountedFailed(i) /\ chunks'[i].st = "fail") =>
            (chunks'[i].landed = chunks[i].landed
             /\ index'[Key(cur.agentId, cur.sourceId, i)]
                  <= index[Key(cur.agentId, cur.sourceId, i)])]_vars


====
